---- MODULE Spec2Model ----
(***************************************************************************)
(* A model of kakaotalk.py: the line parser (parse_line), the per-file     *)
(* ingestion loop (parse_file), the constructor that drives it with its    *)
(* cache file, and the period aggregation (count_per_period).              *)
(*                                                                         *)
(* Strings are sequences of one-character strings, so that slicing,        *)
(* stripping and splitting are computed character by character as the      *)
(* Python code computes them.  A datetime is the number of seconds since   *)
(* 2024-01-01 00:00:00 (a Monday); a date is the number of days since      *)
(* 2024-01-01.                                                             *)
(***************************************************************************)
EXTENDS Integers, Sequences, FiniteSets, TLC

(***************************************************************************)
(* Bounds of the model.                                                    *)
(***************************************************************************)
\* lines read from files over one run of the process
MaxLines == 3
\* files opened by parse_file over one run of the process
MaxFiles == 2
\* count_per_period calls over one run of the process
MaxCalls == 2

(***************************************************************************)
(* Line types, kakaotalk.py lines 31-33.                                   *)
(***************************************************************************)
LINE_TYPE_UNCHANGED == 0
LINE_TYPE_DATE == 1
LINE_TYPE_MESSAGE == 2

(***************************************************************************)
(* Characters and Python string operations.                                *)
(***************************************************************************)
Min(a, b) == IF a < b THEN a ELSE b

Digits == <<"0", "1", "2", "3", "4", "5", "6", "7", "8", "9">>
IsDigit(c) == \E i \in 1..10 : Digits[i] = c
DigitVal(c) == (CHOOSE i \in 1..10 : Digits[i] = c) - 1

Letters == {"A", "B", "a", "b", "c", "d", "e", "h", "i", "k", "l", "o", "r",
            "s", "t", "w", "M", "m", "P", "p"}
\* the regular expression class \w
IsWordChar(c) == c \in Letters \/ IsDigit(c) \/ c = "_"
IsSpace(c) == c = " " \/ c = "\n"

\* s[a:b] of Python for 0 <= a, 0 <= b: both ends are clamped to len(s)
Slice(s, a, b) == SubSeq(s, a + 1, Min(b, Len(s)))
\* s[a:] of Python for 0 <= a
SliceFrom(s, a) == SubSeq(s, a + 1, Len(s))

\* str.strip(): leading and trailing whitespace removed
Strip(s) ==
  LET idx == {i \in 1..Len(s) : ~IsSpace(s[i])}
  IN IF idx = {} THEN << >>
     ELSE LET lo == CHOOSE i \in idx : \A j \in idx : i <= j
              hi == CHOOSE i \in idx : \A j \in idx : i >= j
          IN SubSeq(s, lo, hi)

\* s.split(":", 1): the parts around the first colon, or the string alone
SplitColon(s) ==
  LET idx == {i \in 1..Len(s) : s[i] = ":"}
  IN IF idx = {} THEN <<s>>
     ELSE LET k == CHOOSE i \in idx : \A j \in idx : i <= j
          IN <<SubSeq(s, 1, k - 1), SubSeq(s, k + 1, Len(s))>>

\* Message.count_words: len(re.findall(r'\b\w+\b', text)), the number of
\* maximal runs of word characters
CountWords(text) ==
  Cardinality({i \in 1..Len(text) :
                 /\ IsWordChar(text[i])
                 /\ (i = 1 \/ ~IsWordChar(text[i - 1]))})

(***************************************************************************)
(* The calendar of 2024.                                                   *)
(***************************************************************************)
MonthLen == <<31, 29, 31, 30, 31, 30, 31, 31, 30, 31, 30, 31>>

\* days of 2024 before the first of month mo (mo = 13: the whole year)
DaysBefore(mo) ==
  <<0, 31, 60, 91, 121, 152, 182, 213, 244, 274, 305, 335, 366>>[mo]

\* the month (1..12) of day ordinal d of 2024, 0 <= d < 366
MonthOf(d) == CHOOSE mo \in 1..12 : DaysBefore(mo) <= d /\ d < DaysBefore(mo + 1)
\* date.day
DayOfMonth(d) == d - DaysBefore(MonthOf(d)) + 1
\* date.isoweekday(): Monday is 1; 2024-01-01 is a Monday
IsoWeekday(d) == (d % 7) + 1

SecondsPerDay == 86400
SecondsPerHour == 3600
MakeDT(mo, d, h, mi, s) ==
  (DaysBefore(mo) + d - 1) * SecondsPerDay + h * SecondsPerHour + mi * 60 + s
\* datetime.date()
DateOf(dt) == dt \div SecondsPerDay
\* datetime.time() as seconds since midnight
TimeOf(dt) == dt % SecondsPerDay

(***************************************************************************)
(* dateutil.parser.parse on the timestamp grammar of the modelled exports: *)
(* "YYYY-MM-DD", optionally followed by "HH:MM" or "HH:MM:SS", optionally  *)
(* followed by an am/pm word ("a", "am", "p", "pm" in either case) or by a  *)
(* time-zone name (up to five upper-case letters, which parse accepts and  *)
(* ignores).  Spaces are skipped between tokens and at both ends.  Every   *)
(* other token is an unknown word, on which parse raises ValueError.  NoDT *)
(* stands for the ValueError (and for dt = None in parse_line).            *)
(***************************************************************************)
NoDT == -1

\* the maximal space-free pieces of s, in order
Tokens(s) ==
  LET starts == {i \in 1..Len(s) : s[i] # " " /\ (i = 1 \/ s[i - 1] = " ")}
      EndOf(i) == CHOOSE j \in i..Len(s) :
                     /\ \A k \in i..j : s[k] # " "
                     /\ (j = Len(s) \/ s[j + 1] = " ")
      n == Cardinality(starts)
      Nth(k) == CHOOSE i \in starts : Cardinality({j \in starts : j < i}) = k - 1
  IN [k \in 1..n |-> SubSeq(s, Nth(k), EndOf(Nth(k)))]

Num2(s, i) == DigitVal(s[i]) * 10 + DigitVal(s[i + 1])

IsDateToken(w) ==
  /\ Len(w) = 10
  /\ \A i \in {1, 2, 3, 4, 6, 7, 9, 10} : IsDigit(w[i])
  /\ w[5] = "-" /\ w[8] = "-"
  /\ SubSeq(w, 1, 4) = <<"2", "0", "2", "4">>
  /\ Num2(w, 6) \in 1..12
  /\ Num2(w, 9) \in 1..MonthLen[Num2(w, 6)]

IsTimeToken(w) ==
  /\ Len(w) \in {5, 8}
  /\ \A i \in 1..Len(w) : IF i \in {3, 6} THEN w[i] = ":" ELSE IsDigit(w[i])
  /\ Num2(w, 1) \in 0..23
  /\ Num2(w, 4) \in 0..59
  /\ (Len(w) = 8 => Num2(w, 7) \in 0..59)

AmWords == {<<"a">>, <<"A">>, <<"a", "m">>, <<"A", "M">>}
PmWords == {<<"p">>, <<"P">>, <<"p", "m">>, <<"P", "M">>}

\* the upper-case letters among Letters
Uppercase == {"A", "B", "M", "P"}
\* a token taken for the name of a time zone once the hour is known
IsTzName(w) == Len(w) \in 1..5 /\ \A i \in 1..Len(w) : w[i] \in Uppercase

\* the datetime the tokens tk of a string stand for, NoDT if none
ParseTokens(tk) ==
  LET h == Num2(tk[2], 1)
      mi == Num2(tk[2], 4)
      sec == IF Len(tk[2]) = 8 THEN Num2(tk[2], 7) ELSE 0
      \* the hour after the am/pm flag is applied
      h12 == IF tk[3] \in AmWords
             THEN (IF h = 12 THEN 0 ELSE h)
             ELSE (IF h < 12 THEN h + 12 ELSE h)
  IN IF Len(tk) = 0 \/ Len(tk) > 3 THEN NoDT
     ELSE IF ~IsDateToken(tk[1]) THEN NoDT
     ELSE IF Len(tk) = 1 THEN MakeDT(Num2(tk[1], 6), Num2(tk[1], 9), 0, 0, 0)
     ELSE IF ~IsTimeToken(tk[2]) THEN NoDT
     ELSE IF Len(tk) = 2 THEN MakeDT(Num2(tk[1], 6), Num2(tk[1], 9), h, mi, sec)
     ELSE IF tk[3] \in AmWords \cup PmWords
     THEN (IF h > 12 THEN NoDT
           ELSE MakeDT(Num2(tk[1], 6), Num2(tk[1], 9), h12, mi, sec))
     ELSE IF IsTzName(tk[3])
     THEN MakeDT(Num2(tk[1], 6), Num2(tk[1], 9), h, mi, sec)
     ELSE NoDT

DateutilParse(s) == ParseTokens(Tokens(s))

(***************************************************************************)
(* MessageExportAnalyser.parse_line.                                       *)
(***************************************************************************)
\* range(40, 10, -1)
PrefixMax == 40
PrefixMin == 11

\* the first c of 40, 39, ..., 11 whose prefix line[0:c] parses; 0 if none
MatchedPrefix(ln) ==
  LET ok == {c \in PrefixMin..PrefixMax : DateutilParse(Slice(ln, 0, c)) # NoDT}
  IN IF ok = {} THEN 0 ELSE CHOOSE c \in ok : \A d \in ok : d <= c

\* line = line[(c-1):] after a match, the line itself otherwise
Remainder(ln, c) == IF c = 0 THEN ln ELSE SliceFrom(ln, c - 1)

\* dt after the scan: the datetime of the matched prefix, None without one
MatchedDT(ln, c) == IF c = 0 THEN NoDT ELSE DateutilParse(Slice(ln, 0, c))

\* lines 182-198: the type of the line and the split into sender and text
\* (parts is rest.split(":", 1)), given dt and the rest of the line
Classify(dt, rest, parts) ==
  LET t0 == IF dt = NoDT THEN LINE_TYPE_UNCHANGED
            ELSE IF TimeOf(dt) = 0 THEN LINE_TYPE_DATE
            ELSE LINE_TYPE_MESSAGE
      sender == IF Len(parts) = 2 THEN Strip(parts[1]) ELSE << >>
      text == IF Len(parts) = 2 THEN Strip(parts[2]) ELSE rest
      t == IF sender = << >> \/ sender = <<" ">> THEN LINE_TYPE_UNCHANGED ELSE t0
  IN [t |-> t, dt |-> dt, sender |-> sender, text |-> text]

\* lines 172-198, given the length c of the matched prefix
ParseAfterPrefix(ln, c) ==
  Classify(MatchedDT(ln, c), Remainder(ln, c), SplitColon(Remainder(ln, c)))

parse_line(ln) == ParseAfterPrefix(ln, MatchedPrefix(ln))

(***************************************************************************)
(* Message.add_line and the Counter arithmetic of Sender.count_message.    *)
(***************************************************************************)
\* Message.add_line: self.text = self.text + "\n" + text
add_line(text, more) == text \o <<"\n">> \o more

\* Sender(name): count and response_time are the class-level Counters, all 0
NewSender(name) ==
  [name |-> name, messages |-> 0, words |-> 0, rtime |-> 0, rcount |-> 0]

\* Sender.count_message: self.count = self.count + Counter(messages=1, words=n)
count_message(sender, message) ==
  [sender EXCEPT !.messages = @ + 1, !.words = @ + CountWords(message.text)]

\* CountPass over the last message only
CountPassLast(sndrs, msgs, i) ==
  IF msgs = << >> THEN sndrs
  ELSE [sndrs EXCEPT ![msgs[Len(msgs)].sender] = count_message(@, msgs[Len(msgs)])]

RECURSIVE CountPass(_, _, _)
\* for message in self.messages: message.sender.count_message(message),
\* from the i-th message on
CountPass(sndrs, msgs, i) ==
  IF i > Len(msgs) THEN sndrs
  ELSE CountPass([sndrs EXCEPT ![msgs[i].sender] = count_message(@, msgs[i])],
                 msgs, i + 1)

(***************************************************************************)
(* MessageExportAnalyser.count_per_period.  A bucket key is a datetime     *)
(* (seconds) for period "hour" and a date (days) for the other periods.    *)
(***************************************************************************)
Periods == {"hour", "day", "week", "month"}
Counters == {"messages", "words"}

\* BucketKey with date.weekday() (Monday is 0) for date.isoweekday()
BucketKeyWeekday(dt, period) ==
  IF period = "hour" THEN dt - (dt % SecondsPerHour)
  ELSE IF period = "week" THEN DateOf(dt) + (1 - (IsoWeekday(DateOf(dt)) - 1))
  ELSE IF period = "month" THEN DateOf(dt) + (1 - DayOfMonth(DateOf(dt)))
  ELSE DateOf(dt)

\* lines 240-253: the date a message is counted under
BucketKey(dt, period) ==
  IF period = "hour" THEN dt - (dt % SecondsPerHour)
  ELSE IF period = "week" THEN DateOf(dt) + (1 - IsoWeekday(DateOf(dt)))
  ELSE IF period = "month" THEN DateOf(dt) + (1 - DayOfMonth(DateOf(dt)))
  ELSE DateOf(dt)

\* date + relativedelta(months=1): the same day of the next month, clipped
\* to that month's length
AddMonth(d) ==
  LET mo == MonthOf(d)
      dom == DayOfMonth(d)
  IN IF mo = 12 THEN DaysBefore(13) + dom - 1
     ELSE DaysBefore(mo + 1) + Min(dom, MonthLen[mo + 1]) - 1

\* lines 269-277: date + td
AddPeriod(date, period) ==
  IF period = "hour" THEN date + SecondsPerHour
  ELSE IF period = "week" THEN date + 7
  ELSE IF period = "month" THEN AddMonth(date)
  ELSE date + 1

\* lines 258-261: what one message adds to its bucket
CountOf(message, counter) ==
  IF counter = "messages" THEN 1 ELSE CountWords(message.text)

\* NoteDate without its membership test: every message appends its date
NoteDateAlways(dates, date) == Append(dates, date)

\* "if not date in dates: dates.append(date)"
NoteDate(dates, date) ==
  IF \E k \in 1..Len(dates) : dates[k] = date THEN dates ELSE Append(dates, date)

RECURSIVE CollectDates(_, _, _, _)
\* lines 239-255: the bucket keys in the order they are first seen
CollectDates(msgs, period, i, dates) ==
  IF i > Len(msgs) THEN dates
  ELSE CollectDates(msgs, period, i + 1,
                    NoteDate(dates, BucketKey(msgs[i].dt, period)))

RECURSIVE SumCounts(_, _, _, _, _)
\* lines 257-263: counts[date] after the loop, from the i-th message on
SumCounts(msgs, counter, period, date, i) ==
  IF i > Len(msgs) THEN 0
  ELSE (IF BucketKey(msgs[i].dt, period) = date
        THEN CountOf(msgs[i], counter) ELSE 0)
       + SumCounts(msgs, counter, period, date, i + 1)

RECURSIVE AddPeriods(_, _, _)
\* date + td + ... + td, j times; adding a timedelta j times is adding j
\* times its length, adding a relativedelta is done month by month
AddPeriods(date, period, j) ==
  IF period = "hour" THEN date + j * SecondsPerHour
  ELSE IF period = "week" THEN date + j * 7
  ELSE IF period = "day" THEN date + j
  ELSE IF j = 0 THEN date
  ELSE AddPeriod(AddPeriods(date, period, j - 1), period)

\* FillCount with "if" for "while": at most one missing date is filled in
FillCountOnce(last_date, date, period) ==
  IF AddPeriod(last_date, period) < date THEN 1 ELSE 0

\* FillCount with "<=" for "<": the filling runs up to the date itself
FillCountInclusive(last_date, date, period) ==
  IF ~(AddPeriod(last_date, period) <= date) THEN 0
  ELSE IF period = "month"
  THEN CHOOSE j \in 1..(date - last_date) :
         /\ AddPeriods(last_date, period, j) <= date
         /\ ~(AddPeriods(last_date, period, j + 1) <= date)
  ELSE IF period = "hour" THEN (date - last_date) \div SecondsPerHour
  ELSE IF period = "week" THEN (date - last_date) \div 7
  ELSE date - last_date

\* how often "while (last_date+td) < date" runs its body
FillCount(last_date, date, period) ==
  IF ~(AddPeriod(last_date, period) < date) THEN 0
  ELSE IF period = "month"
  THEN CHOOSE j \in 1..(date - last_date) :
         /\ AddPeriods(last_date, period, j) < date
         /\ ~(AddPeriods(last_date, period, j + 1) < date)
  ELSE IF period = "hour" THEN (date - last_date - 1) \div SecondsPerHour
  ELSE IF period = "week" THEN (date - last_date - 1) \div 7
  ELSE date - last_date - 1

\* lines 282-285: the (fill_date, 0) entries appended before date
FillMissing(last_date, date, period) ==
  [j \in 1..FillCount(last_date, date, period) |->
     <<AddPeriods(last_date, period, j), 0>>]

RECURSIVE EmitValues(_, _, _, _, _)
\* lines 279-287: values_out from the k-th date on
EmitValues(msgs, counter, period, dates, k) ==
  IF k > Len(dates) THEN << >>
  ELSE (IF k > 1 THEN FillMissing(dates[k - 1], dates[k], period) ELSE << >>)
       \o <<(<<dates[k], SumCounts(msgs, counter, period, dates[k], 1)>>)>>
       \o EmitValues(msgs, counter, period, dates, k + 1)

count_per_period(msgs, counter, period) ==
  EmitValues(msgs, counter, period, CollectDates(msgs, period, 1, << >>), 1)

(***************************************************************************)
(* The lines the modelled export files are made of.                        *)
(***************************************************************************)
TwoDigits(n) == <<Digits[(n \div 10) + 1], Digits[(n % 10) + 1]>>
\* "2024-MM-DD HH:MM"
Stamp(mo, d, h, mi) ==
  <<"2", "0", "2", "4", "-">> \o TwoDigits(mo) \o <<"-">> \o TwoDigits(d)
    \o <<" ">> \o TwoDigits(h) \o <<":">> \o TwoDigits(mi)

Alice == <<"A", "l", "i", "c", "e">>
Bob == <<"B", "o", "b">>
Hello == <<"h", "e", "l", "l", "o">>
Hi == <<"h", "i">>
World == <<"w", "o", "r", "l", "d">>
SeeThis == <<"s", "e", "e", ":", " ", "t", "h", "i", "s">>

\* "<stamp> <name>: <body>"
MessageLine(stamp, name, body) == stamp \o <<" ">> \o name \o <<":", " ">> \o body

LineAlice1000 == MessageLine(Stamp(1, 1, 10, 0), Alice, Hello)
LineBob1005 == MessageLine(Stamp(1, 1, 10, 5), Bob, Hi)
LineAliceJan5 == MessageLine(Stamp(1, 5, 9, 30), Alice, Hi)
LineAliceJan27 == MessageLine(Stamp(1, 27, 22, 0), Alice, Hello)
LineBobJan27 == MessageLine(Stamp(1, 27, 22, 5), Bob, Hi)
LineAliceJan31 == MessageLine(Stamp(1, 31, 9, 30), Alice, Hi)
LineBobMar1 == MessageLine(Stamp(3, 1, 8, 0), Bob, Hello)
\* "2024-01-01 00:00:00", a date divider
LineDivider == Stamp(1, 1, 0, 0) \o <<":", "0", "0">>

\* a line as the file iterator yields it, with its line end
Raw(s) == s \o <<"\n">>

\* the lines of the files of the ingestion runs
ChatLines ==
  {Raw(LineAlice1000), Raw(LineBob1005), Raw(LineAliceJan5),
   Raw(World), Raw(SeeThis), Raw(LineDivider), Raw(<< >>)}

\* the lines of the files of the aggregation runs: messages only, spread
\* over hours, days, weeks and months
DatedLines ==
  {Raw(LineAliceJan27), Raw(LineBobJan27), Raw(LineAliceJan31), Raw(LineBobMar1)}

\* "2024-01-01 00:00 Alice: hi": a message sent at midnight
LineAliceMidnight == MessageLine(Stamp(1, 1, 0, 0), Alice, Hi)
\* "2024-01-01 10:00 world": a timestamp and a text without a colon
LineNoColon == Stamp(1, 1, 10, 0) \o <<" ">> \o World
\* "2024-01-01 10:05 : hi": a timestamp and an empty sender name
LineEmptySender == MessageLine(Stamp(1, 1, 10, 5), << >>, Hi)
\* "2024-01-01 10:05: hi": the colon follows the timestamp directly
LineColonAtStamp == Stamp(1, 1, 10, 5) \o <<":", " ">> \o Hi
\* "2024-01-01 10:05bob: hi": the sender name follows the timestamp directly
LineNameAtStamp == Stamp(1, 1, 10, 5) \o <<"b", "o", "b", ":", " ">> \o Hi

\* the lines of the files of the line-classification runs
EdgeLines ==
  {Raw(LineBob1005), Raw(LineAliceMidnight), Raw(LineNoColon),
   Raw(LineEmptySender), Raw(LineColonAtStamp), Raw(LineNameAtStamp)}

\* parse_line on every line of the files, computed once
StrippedLines == {Strip(raw) : raw \in ChatLines \cup DatedLines \cup EdgeLines}
Parsed == [l \in StrippedLines |-> parse_line(l)] @@ << >>

(***************************************************************************)
(* The state of the process.                                               *)
(***************************************************************************)
Analysers == {"a1", "a2"}
NoAnalyser == "none"
NoLine == <<"\n", "\n">>

\* the cache file input_file_path + '.data': absent, holding bytes that are
\* not a pickle of a (messages, senders) pair, or (kind "pickle") holding
\* the pickle of such a pair
NoCache == [kind |-> "absent", messages |-> << >>, senders |-> << >>]
CorruptCache == [kind |-> "corrupt", messages |-> << >>, senders |-> << >>]
\* an analyser without instance attributes messages and senders
NoOwn == [kind |-> "class", messages |-> << >>, senders |-> << >>]

\* what pickle.load raises on bytes that are not a pickle: UnpicklingError
\* (a PickleError), EOFError on an empty or truncated file, KeyError on an
\* unknown opcode
LoadErrors == {"UnpicklingError", "EOFError", "KeyError"}

VARIABLES
  messages,      \* MessageExportAnalyser.messages, the class-level list
  senders,       \* MessageExportAnalyser.senders, the class-level dict
  pc,            \* "main", "init" (in __init__, line 108), "loop" (line 134),
                 \* "raised" (an exception left __init__ uncaught) or
                 \* "exit" (sys.exit(1), line 131)
  self,          \* the analyser whose __init__ is running
  constructed,   \* the analysers whose __init__ has returned
  last_message,  \* parse_file's local: an index into messages, 0 for None
  line,          \* parse_file's local: the stripped line of this iteration
  ingested,      \* per analyser, the messages its own parse_file calls appended
  query,         \* the last count_per_period call: <<counter, period>>
  values_out,    \* what that call returned
  nfiles,        \* files opened so far
  nlines,        \* lines read so far
  ncalls,        \* count_per_period calls so far
  use_cache,     \* the use_cache argument of the running __init__
  cache,         \* the cache file
  own,           \* per analyser, the instance attributes (messages, senders)
                 \* assigned at line 89, NoOwn without them
  missing        \* per analyser, whether a source file its run names does
                 \* not exist: glob.glob (line 105) lists existing files only

\* the cache and the files around it
cachevars == <<use_cache, cache, own, missing>>

vars == <<messages, senders, pc, self, constructed, last_message, line,
          ingested, query, values_out, nfiles, nlines, ncalls, cachevars>>

NoQuery == << >>

\* what an analyser sees as self.messages and self.senders: no instance
\* attribute of these names is ever assigned by the parsing path, so the
\* lookup falls through to the class attributes of lines 72-73; only a
\* cache hit (line 89) gives an analyser attributes of its own
MessagesOf(a) == IF own[a].kind = "class" THEN messages ELSE own[a].messages
SendersOf(a) == IF own[a].kind = "class" THEN senders ELSE own[a].senders

\* pickle.dump((self.messages, self.senders), f), line 118
Pickled(a) ==
  [kind |-> "pickle", messages |-> MessagesOf(a), senders |-> SendersOf(a)]

\* the process starts: the class attributes are empty, nothing is built
InitProcess ==
  /\ messages = << >>
  /\ senders = << >>
  /\ pc = "main"
  /\ self = NoAnalyser
  /\ constructed = {}
  /\ last_message = 0
  /\ line = NoLine
  /\ ingested = [a \in Analysers |-> 0]
  /\ query = NoQuery
  /\ values_out = << >>
  /\ nfiles = 0
  /\ nlines = 0
  /\ ncalls = 0
  /\ use_cache = FALSE
  /\ own = [a \in Analysers |-> NoOwn]
  /\ missing = [a \in Analysers |-> FALSE]

\* a process that finds no cache file
Init == InitProcess /\ cache = NoCache

\* MessageExportAnalyser(input_file_path, use_cache=False) is entered
Construct(a) ==
  /\ pc = "main"
  /\ self = NoAnalyser
  /\ a \notin constructed
  /\ self' = a
  /\ pc' = "init"
  /\ query' = NoQuery
  /\ values_out' = << >>
  /\ use_cache' = FALSE
  /\ UNCHANGED <<messages, senders, constructed, last_message, line, ingested,
                 nfiles, nlines, ncalls, cache, own, missing>>

\* MessageExportAnalyser(input_file_path), use_cache=True, is entered: lines
\* 82-95.  gone: a source file the path names does not exist; readable: the
\* cache file can be opened; err: what pickle.load raises if the file holds
\* no pickle
ConstructCached(a, gone, readable, err) ==
  /\ pc = "main"
  /\ self = NoAnalyser
  /\ a \notin constructed
  /\ query' = NoQuery
  /\ values_out' = << >>
  /\ use_cache' = TRUE
  /\ missing' = [missing EXCEPT ![a] = gone]
  /\ IF cache.kind = "absent" \/ ~readable
     THEN \* open raises IOError: "except IOError: pass"
          /\ self' = a
          /\ pc' = "init"
          /\ UNCHANGED <<own, constructed>>
     ELSE IF cache.kind = "corrupt"
     THEN \* pickle.load raises err: only a PickleError is caught
          /\ self' = a
          /\ pc' = IF err = "UnpicklingError" THEN "init" ELSE "raised"
          /\ UNCHANGED <<own, constructed>>
     ELSE \* self.messages, self.senders = pickle.load(f); return
          /\ own' = [own EXCEPT ![a] = cache]
          /\ constructed' = constructed \cup {a}
          /\ UNCHANGED <<self, pc>>
  /\ UNCHANGED <<messages, senders, last_message, line, ingested, nfiles,
                 nlines, ncalls, cache>>

\* the next file of all_files cannot be opened: lines 127-131, sys.exit(1)
OpenFails ==
  /\ pc = "init"
  /\ nfiles < MaxFiles
  /\ nfiles' = nfiles + 1
  /\ pc' = "exit"
  /\ UNCHANGED <<messages, senders, self, constructed, last_message, line,
                 ingested, query, values_out, nlines, ncalls, cachevars>>

\* the next file of all_files: parse_file opens it and sets last_message = None
BeginFile ==
  /\ pc = "init"
  /\ nfiles < MaxFiles
  /\ nfiles' = nfiles + 1
  /\ pc' = "loop"
  /\ last_message' = 0
  /\ line' = NoLine
  /\ UNCHANGED <<messages, senders, self, constructed, ingested, query, values_out,
                 nlines, ncalls, cachevars>>

\* the message parse_file builds from a parsed LINE_TYPE_MESSAGE line
NewMessage(p) ==
  [dt |-> p.dt, sender |-> p.sender, text |-> p.text,
   response_time |->
     IF last_message # 0 /\ messages[last_message].sender # p.sender
     THEN p.dt - messages[last_message].dt
     ELSE 0,
   prev |-> last_message]

\* lines 139-156: what parse_file does with the parsed line p
Dispatch(p) ==
  IF p.t = LINE_TYPE_UNCHANGED /\ last_message # 0
  THEN /\ messages' = [messages EXCEPT ![last_message].text = add_line(@, p.text)]
       /\ UNCHANGED <<senders, last_message, ingested>>
  ELSE IF p.t = LINE_TYPE_MESSAGE
  THEN /\ senders' = IF p.sender \in DOMAIN senders THEN senders
                     ELSE (p.sender :> NewSender(p.sender)) @@ senders
       /\ messages' = Append(messages, NewMessage(p))
       /\ last_message' = Len(messages) + 1
       /\ ingested' = [ingested EXCEPT ![self] = @ + 1]
  ELSE UNCHANGED <<messages, senders, last_message, ingested>>

\* one iteration of "for line in f"
IngestLine(raw) ==
  /\ pc = "loop"
  /\ nlines < MaxLines
  /\ nlines' = nlines + 1
  /\ line' = Strip(raw)
  /\ IF Strip(raw) = << >>
     THEN UNCHANGED <<messages, senders, last_message, ingested>>
     ELSE Dispatch(Parsed[Strip(raw)])
  /\ UNCHANGED <<pc, self, constructed, query, values_out, nfiles, ncalls,
                 cachevars>>

\* the file is exhausted: the counting loop of lines 158-159, then return
EndFile ==
  /\ pc = "loop"
  /\ senders' = CountPass(senders, messages, 1)
  /\ pc' = "init"
  /\ last_message' = 0
  /\ line' = NoLine
  /\ UNCHANGED <<messages, self, constructed, ingested, query, values_out,
                 nfiles, nlines, ncalls, cachevars>>

\* all_files is exhausted: with use_cache the cache file is written if it
\* can be opened (lines 114-120), then __init__ returns
Return ==
  /\ pc = "init"
  /\ constructed' = constructed \cup {self}
  /\ self' = NoAnalyser
  /\ pc' = "main"
  /\ IF use_cache
     THEN \E writable \in BOOLEAN :
            cache' = IF writable THEN Pickled(self) ELSE cache
     ELSE UNCHANGED cache
  /\ UNCHANGED <<messages, senders, last_message, line, ingested, query,
                 values_out, nfiles, nlines, ncalls, use_cache, own, missing>>

\* CountPerPeriod with "self.messages.pop(0)" for the read of each message:
\* the call consumes the messages it counts
CountPerPeriodDraining(a, counter, period) ==
  /\ pc = "main"
  /\ a \in constructed
  /\ ncalls < MaxCalls
  /\ query \in {NoQuery, <<counter, period>>}
  /\ values_out' = count_per_period(MessagesOf(a), counter, period)
  /\ messages' = << >>
  /\ query' = <<counter, period>>
  /\ ncalls' = ncalls + 1
  /\ UNCHANGED <<senders, pc, self, constructed, last_message, line,
                 ingested, nfiles, nlines, cachevars>>

\* analyser.count_per_period(counter, period), called from the main script,
\* which asks for one series per analyser it has built (lines 374-385); the
\* call may be repeated
CountPerPeriod(a, counter, period) ==
  /\ pc = "main"
  /\ a \in constructed
  /\ ncalls < MaxCalls
  /\ query \in {NoQuery, <<counter, period>>}
  /\ values_out' = count_per_period(MessagesOf(a), counter, period)
  /\ query' = <<counter, period>>
  /\ ncalls' = ncalls + 1
  /\ UNCHANGED <<messages, senders, pc, self, constructed, last_message, line,
                 ingested, nfiles, nlines, cachevars>>

\* the ingestion runs: two analysers in one process, files of chat lines
Next ==
  \/ \E a \in Analysers : Construct(a)
  \/ BeginFile
  \/ \E raw \in ChatLines : IngestLine(raw)
  \/ EndFile
  \/ Return

Spec == Init /\ [][Next]_vars

\* the aggregation runs: one analyser, files of dated messages, and the
\* main script's count_per_period calls on it
NextPeriods ==
  \/ Construct("a1")
  \/ BeginFile
  \/ \E raw \in DatedLines : IngestLine(raw)
  \/ EndFile
  \/ Return
  \/ \E counter \in Counters, period \in Periods :
       CountPerPeriod("a1", counter, period)

SpecPeriods == Init /\ [][NextPeriods]_vars

\* the line-classification runs: one analyser, files of lines whose
\* timestamp, sender name or colon is in an unusual place
NextEdge ==
  \/ Construct("a1")
  \/ BeginFile
  \/ \E raw \in EdgeLines : IngestLine(raw)
  \/ EndFile
  \/ Return

SpecEdge == Init /\ [][NextEdge]_vars

\* the lines of the files of the cached runs
CacheLines == {Raw(LineAlice1000), Raw(LineBob1005)}

\* a process that finds no cache file or one that holds no pickle
InitCache == InitProcess /\ cache \in {NoCache, CorruptCache}

\* the cached runs: analysers built as the main script builds them (line
\* 374), with use_cache left at its default
NextCache ==
  \/ \E a \in Analysers, gone \in BOOLEAN, readable \in BOOLEAN, err \in LoadErrors :
       ConstructCached(a, gone, readable, err)
  \/ BeginFile
  \/ OpenFails
  \/ \E raw \in CacheLines : IngestLine(raw)
  \/ EndFile
  \/ Return

SpecCache == InitCache /\ [][NextCache]_vars

(***************************************************************************)
(* What the properties below are stated in.                                *)
(***************************************************************************)
\* only one analyser has been built or is being built
OneAnalyser == Cardinality(constructed \cup ({self} \ {NoAnalyser})) <= 1

\* parse_file has returned at least once and is not running
AfterParseFile == pc \in {"init", "main"} /\ nfiles >= 1

\* the indices of the messages of the sender called name
MessagesFrom(name) == {i \in 1..Len(messages) : messages[i].sender = name}

RECURSIVE WordsUpTo(_, _)
\* the words of the first i messages that are from name
WordsUpTo(name, i) ==
  IF i = 0 THEN 0
  ELSE WordsUpTo(name, i - 1)
       + (IF messages[i].sender = name THEN CountWords(messages[i].text) ELSE 0)

\* the i-th message answers a message of another sender
IsResponse(i) == i > 1 /\ messages[i].sender # messages[i - 1].sender

RECURSIVE ResponseSecondsUpTo(_, _)
\* the seconds the first i messages made name wait before answering
ResponseSecondsUpTo(name, i) ==
  IF i = 0 THEN 0
  ELSE ResponseSecondsUpTo(name, i - 1)
       + (IF messages[i].sender = name /\ IsResponse(i)
          THEN messages[i].dt - messages[i - 1].dt ELSE 0)

\* the loop of parse_file has just read a line
LineRead == pc = "loop" /\ pc' = "loop" /\ nlines' = nlines + 1

\* a non-blank line without a parsable leading timestamp
IsContinuationLine(l) == l \in StrippedLines /\ l # << >> /\ Parsed[l].dt = NoDT

\* a line that is a date and nothing else, with zero time of day
IsDateDivider(l) ==
  /\ l \in StrippedLines
  /\ l # << >>
  /\ TimeOf(DateutilParse(l)) = 0

(***************************************************************************)
(* C1: after parse_file has been called once per file on one analyser,     *)
(* every Sender's message count is the number of messages of that Sender   *)
(* and its word count is the sum of count_words() over those messages.     *)
(***************************************************************************)
C1_CountsMatchMessages ==
  (OneAnalyser /\ AfterParseFile) =>
    \A name \in DOMAIN senders :
      /\ senders[name].messages = Cardinality(MessagesFrom(name))
      /\ senders[name].words = WordsUpTo(name, Len(messages))

(***************************************************************************)
(* C4: a non-blank line without a parsable timestamp, read when a last     *)
(* message exists, makes that message's text its previous text, a newline  *)
(* and the whole trimmed line, and creates no Message and no Sender.       *)
(***************************************************************************)
C4_ContinuationAppendsWholeLine ==
  [][(LineRead /\ IsContinuationLine(line') /\ last_message # 0) =>
       /\ messages' = [messages EXCEPT
                         ![last_message].text = @ \o <<"\n">> \o line']
       /\ DOMAIN senders' = DOMAIN senders]_vars

(***************************************************************************)
(* C5: after the first file's ingestion and counting pass, every Sender's  *)
(* response count is the number of its messages that follow a message of   *)
(* another sender, and its response-time accumulator is the sum of the     *)
(* seconds elapsed before those messages.                                  *)
(***************************************************************************)
C5_ResponseTimeAccumulated ==
  (OneAnalyser /\ pc = "init" /\ nfiles = 1) =>
    \A name \in DOMAIN senders :
      /\ senders[name].rcount =
           Cardinality({i \in MessagesFrom(name) : IsResponse(i)})
      /\ senders[name].rtime = ResponseSecondsUpTo(name, Len(messages))

(***************************************************************************)
(* C6: reading a date-divider line changes nothing: no Message is          *)
(* appended, no Sender is created, and the last message's text stays as    *)
(* it was.                                                                 *)
(***************************************************************************)
C6_DateDividerChangesNothing ==
  [][(LineRead /\ IsDateDivider(line')) =>
       (messages' = messages /\ senders' = senders)]_vars

(***************************************************************************)
(* C7: over all the files of one analyser, a message's response_time is 0  *)
(* if it is the first message or has the sender of the message before it,  *)
(* and the seconds since the message before it otherwise.                  *)
(***************************************************************************)
C7_ResponseTimeOfEveryMessage ==
  OneAnalyser =>
    \A i \in 1..Len(messages) :
      messages[i].response_time =
        IF IsResponse(i) THEN messages[i].dt - messages[i - 1].dt ELSE 0

(***************************************************************************)
(* C8: the last message is carried across files: a continuation line is    *)
(* appended to the last message any file of the analyser has produced so   *)
(* far, and is dropped only when there is no such message.                 *)
(***************************************************************************)
C8_ContinuationCrossesFiles ==
  [][(LineRead /\ OneAnalyser /\ IsContinuationLine(line') /\ messages # << >>) =>
       /\ Len(messages') = Len(messages)
       /\ messages'[Len(messages)].text # messages[Len(messages)].text]_vars

(***************************************************************************)
(* C10: every analyser has a message sequence and a sender mapping of its  *)
(* own: what an analyser sees holds exactly the messages its own           *)
(* parse_file calls appended, from senders of those messages only.         *)
(***************************************************************************)
C10_AnalysersAreIndependent ==
  \A a \in constructed \cup ({self} \ {NoAnalyser}) :
    /\ Len(MessagesOf(a)) = ingested[a]
    /\ (ingested[a] = 0 => DOMAIN SendersOf(a) = {})

(***************************************************************************)
(* What the properties of count_per_period are stated in.                  *)
(***************************************************************************)
\* count_per_period has returned values_out for the present messages
Returned == query # NoQuery
QueryCounter == query[1]
QueryPeriod == query[2]

\* the timestamps of the messages never decrease along the sequence
Chronological ==
  \A i \in 1..(Len(messages) - 1) : messages[i].dt <= messages[i + 1].dt

SeriesKey(k) == values_out[k][1]
SeriesValue(k) == values_out[k][2]

RECURSIVE WeightedEntries(_)
\* the sum of the values of the entries whose value is at most v: each
\* value times the number of entries that have it
WeightedEntries(v) ==
  IF v = 0 THEN 0
  ELSE v * Cardinality({k \in 1..Len(values_out) : SeriesValue(k) = v})
       + WeightedEntries(v - 1)

\* no entry of a series of message counts exceeds the number of messages
SeriesTotal == WeightedEntries(Len(messages))

\* the start of the hour, the date, the Monday on or before the date, or
\* the first day of the month of a timestamp
PeriodStart(dt, period) ==
  IF period = "hour" THEN (dt \div SecondsPerHour) * SecondsPerHour
  ELSE IF period = "day" THEN dt \div SecondsPerDay
  ELSE IF period = "week" THEN ((dt \div SecondsPerDay) \div 7) * 7
  ELSE DaysBefore(MonthOf(dt \div SecondsPerDay))

\* the period that starts j granularity steps after the one starting at key
PeriodAfter(key, period, j) ==
  IF period = "hour" THEN key + j * SecondsPerHour
  ELSE IF period = "day" THEN key + j
  ELSE IF period = "week" THEN key + j * 7
  ELSE DaysBefore(MonthOf(key) + j)

\* the granularity steps from the period starting at first to that at last
StepsBetween(first, last, period) ==
  IF period = "hour" THEN (last - first) \div SecondsPerHour
  ELSE IF period = "day" THEN last - first
  ELSE IF period = "week" THEN (last - first) \div 7
  ELSE MonthOf(last) - MonthOf(first)

MessagesIn(key, period) ==
  {i \in 1..Len(messages) : PeriodStart(messages[i].dt, period) = key}

(***************************************************************************)
(* C2: the values of the series count_per_period('messages', period)       *)
(* returns add up to the number of messages, for every period.             *)
(***************************************************************************)
C2_SeriesSumsToMessageCount ==
  (Returned /\ QueryCounter = "messages") => SeriesTotal = Len(messages)

\* two messages share a bucket, and a bucket between two others is empty
C2_Witness ==
  /\ Returned /\ QueryCounter = "messages" /\ QueryPeriod = "day"
  /\ Len(messages) = 3
  /\ \E k \in 1..Len(values_out) : SeriesValue(k) = 2
  /\ \E k \in 1..Len(values_out) : SeriesValue(k) = 0

(***************************************************************************)
(* C3: for messages in chronological order the series has exactly one      *)
(* entry per granularity step from the first message's bucket to the last  *)
(* message's bucket, each under its period start, and the entries of       *)
(* periods without a message are 0.                                        *)
(***************************************************************************)
C3_OneEntryPerStep ==
  (Returned /\ Chronological /\ messages # << >>) =>
    LET first == PeriodStart(messages[1].dt, QueryPeriod)
        last == PeriodStart(messages[Len(messages)].dt, QueryPeriod)
        steps == StepsBetween(first, last, QueryPeriod)
    IN /\ Len(values_out) = steps + 1
       /\ \A j \in 0..steps :
            /\ SeriesKey(j + 1) = PeriodAfter(first, QueryPeriod, j)
            /\ (MessagesIn(SeriesKey(j + 1), QueryPeriod) = {}
                  => SeriesValue(j + 1) = 0)
            /\ (QueryCounter = "messages"
                  => SeriesValue(j + 1)
                       = Cardinality(MessagesIn(SeriesKey(j + 1), QueryPeriod)))

\* messages on two days four days apart only: five entries, the middle
\* three of them 0
C3_Witness ==
  /\ Returned /\ QueryCounter = "messages" /\ QueryPeriod = "day"
  /\ Chronological
  /\ Len(messages) >= 2
  /\ DateOf(messages[Len(messages)].dt) = DateOf(messages[1].dt) + 4
  /\ Len(values_out) = 5
  /\ \A k \in 2..4 : SeriesValue(k) = 0
  /\ SeriesValue(1) > 0 /\ SeriesValue(5) > 0

(***************************************************************************)
(* C9, as amended: for messages in chronological order the series is in    *)
(* strictly ascending bucket-key order, so no key occurs twice, counting   *)
(* observed and synthesized entries alike.                                 *)
(***************************************************************************)
C9_AscendingWhenChronological ==
  (Returned /\ Chronological) =>
    \A k \in 1..(Len(values_out) - 1) : SeriesKey(k) < SeriesKey(k + 1)

\* C9 as claimed: the series is strictly ascending whatever the order of
\* the message timestamps
C9_AscendingAlways ==
  Returned =>
    \A k \in 1..(Len(values_out) - 1) : SeriesKey(k) < SeriesKey(k + 1)

\* a chronological sequence whose series has observed and synthesized
\* entries, in weeks
C9_Witness ==
  /\ Returned /\ Chronological /\ QueryPeriod = "week"
  /\ Len(messages) = 3
  /\ \E k \in 1..Len(values_out) : SeriesValue(k) = 0
  /\ Cardinality({k \in 1..Len(values_out) : SeriesValue(k) > 0}) = 3

(***************************************************************************)
(* C11: count_per_period is read-only and idempotent: a call leaves the    *)
(* message sequence, every message's text and every Sender's counters as   *)
(* they were, and a call repeated with the same counter and period on the  *)
(* same analyser state returns the series the call before it returned.     *)
(***************************************************************************)
\* the step is a call of count_per_period
Called == ncalls' = ncalls + 1

C11_CountPerPeriodReadOnly ==
  [][Called =>
       /\ messages' = messages
       /\ senders' = senders
       /\ own' = own
       /\ (query' = query => values_out' = values_out)]_vars

\* the second of two calls has returned a series with counted and with
\* filled-in entries
C11_Witness ==
  /\ ncalls = 2
  /\ Returned
  /\ Len(messages) >= 2
  /\ \E k \in 1..Len(values_out) : SeriesValue(k) > 0
  /\ \E k \in 1..Len(values_out) : SeriesValue(k) = 0

(***************************************************************************)
(* C17: the series has, for every message, an entry under the start of the *)
(* message's period: the start of its hour, its date, the Monday on or     *)
(* before its date (at most 6 days earlier), the first day of its month;   *)
(* and that entry counts exactly the messages of the same hour, day, ISO   *)
(* week or month, so two messages share a key exactly when they share the  *)
(* period.                                                                 *)
(***************************************************************************)
\* key is the start of the period of the timestamp dt
IsStartOfPeriod(key, dt, period) ==
  IF period = "hour"
  THEN key % SecondsPerHour = 0 /\ key <= dt /\ dt - key < SecondsPerHour
  ELSE IF period = "day" THEN key = DateOf(dt)
  ELSE IF period = "week"
  THEN IsoWeekday(key) = 1 /\ key <= DateOf(dt) /\ DateOf(dt) - key <= 6
  ELSE DayOfMonth(key) = 1 /\ MonthOf(key) = MonthOf(DateOf(dt))

\* the two timestamps are in the same hour, day, ISO week or month of 2024,
\* a year that starts on a Monday
SamePeriod(dt1, dt2, period) ==
  IF period = "hour" THEN dt1 \div SecondsPerHour = dt2 \div SecondsPerHour
  ELSE IF period = "day" THEN DateOf(dt1) = DateOf(dt2)
  ELSE IF period = "week" THEN DateOf(dt1) \div 7 = DateOf(dt2) \div 7
  ELSE MonthOf(DateOf(dt1)) = MonthOf(DateOf(dt2))

C17_KeyIsStartOfPeriod ==
  (Returned /\ QueryCounter = "messages") =>
    \A i \in 1..Len(messages) :
      \E k \in 1..Len(values_out) :
        /\ IsStartOfPeriod(SeriesKey(k), messages[i].dt, QueryPeriod)
        /\ SeriesValue(k) =
             Cardinality({j \in 1..Len(messages) :
                            SamePeriod(messages[i].dt, messages[j].dt, QueryPeriod)})

\* a message of a Saturday is counted under the Monday five days before it
C17_Witness ==
  /\ Returned /\ QueryCounter = "messages" /\ QueryPeriod = "week"
  /\ \E i \in 1..Len(messages) :
       /\ IsoWeekday(DateOf(messages[i].dt)) = 6
       /\ \E k \in 1..Len(values_out) :
            SeriesKey(k) = DateOf(messages[i].dt) - 5 /\ SeriesValue(k) > 0

(***************************************************************************)
(* What the properties of the cached runs are stated in.                   *)
(***************************************************************************)
\* the constructor of the analyser self was left by an uncaught exception
Aborted == pc = "raised"

\* the analyser was built by parsing the source files, not from the cache
BuiltByParsing(a) == a \in constructed /\ own[a].kind = "class"

(***************************************************************************)
(* C12: with use_cache, a cache file that holds no pickle never aborts the *)
(* construction: whatever loading it raises, the constructor goes on to    *)
(* parse the source files.                                                 *)
(***************************************************************************)
C12_CorruptCacheNeverAborts ==
  (use_cache /\ cache.kind = "corrupt") => ~Aborted

(***************************************************************************)
(* C13: a run one of whose source files is missing or cannot be opened     *)
(* never completes with a result: an open failure ends the process before  *)
(* the analyser is built, and no analyser is built by parsing when a       *)
(* source file of its run does not exist.                                  *)
(***************************************************************************)
C13_NoResultWithoutSource ==
  /\ (pc = "exit" => self \notin constructed)
  /\ \A a \in Analysers : BuiltByParsing(a) => ~missing[a]

(***************************************************************************)
(* What the properties of line classification are stated in.               *)
(***************************************************************************)
\* the length of the matched timestamp prefix of every line of the files
Prefix == [l \in StrippedLines |-> MatchedPrefix(l)] @@ << >>

\* a non-blank line whose leading prefix parses as a timestamp
HasStamp(l) == l \in StrippedLines /\ l # << >> /\ Prefix[l] # 0

\* the part of the line strictly after the matched prefix
AfterPrefix(l) == SliceFrom(l, Prefix[l])

HasColon(s) == \E i \in 1..Len(s) : s[i] = ":"

\* the trimmed text between the matched prefix and the first colon after
\* it, empty without a colon
NameAfterPrefix(l) ==
  IF HasColon(AfterPrefix(l)) THEN Strip(SplitColon(AfterPrefix(l))[1]) ELSE << >>

\* the trimmed text after that colon, the whole remainder without a colon
BodyAfterPrefix(l) ==
  IF HasColon(AfterPrefix(l)) THEN Strip(SplitColon(AfterPrefix(l))[2])
  ELSE AfterPrefix(l)

(***************************************************************************)
(* C14: reading a line with a timestamp prefix and a non-empty sender name *)
(* before the first colon of the remainder appends exactly one Message     *)
(* with that timestamp, whatever the time of day.                          *)
(***************************************************************************)
C14_StampedLineWithSenderIsMessage ==
  [][(LineRead /\ HasStamp(line') /\ NameAfterPrefix(line') # << >>) =>
       /\ Len(messages') = Len(messages) + 1
       /\ messages'[Len(messages')].dt = Parsed[line'].dt]_vars

(***************************************************************************)
(* C15: reading a line with a timestamp prefix whose remainder has no      *)
(* colon, or nothing but whitespace before its first colon, creates no     *)
(* Message and no Sender, leaves the mapping without a Sender of the empty *)
(* name, and appends a newline and the body (up to surrounding whitespace) *)
(* to the last message if there is one.                                    *)
(***************************************************************************)
C15_StampedLineWithoutSenderIsContinuation ==
  [][(LineRead /\ HasStamp(line') /\ NameAfterPrefix(line') = << >>) =>
       /\ Len(messages') = Len(messages)
       /\ DOMAIN senders' = DOMAIN senders
       /\ << >> \notin DOMAIN senders'
       /\ (last_message # 0 =>
             /\ Len(messages'[last_message].text)
                  > Len(messages[last_message].text)
             /\ SubSeq(messages'[last_message].text, 1,
                       Len(messages[last_message].text) + 1)
                  = messages[last_message].text \o <<"\n">>
             /\ Strip(SliceFrom(messages'[last_message].text,
                                Len(messages[last_message].text) + 1))
                  = Strip(BodyAfterPrefix(line')))]_vars

(***************************************************************************)
(* C16: the Message a line with a timestamp prefix produces has as sender  *)
(* name the trimmed text between the end of the matched prefix and the     *)
(* first colon after it, and as body the trimmed text after that colon.    *)
(***************************************************************************)
C16_SenderAndBodyFollowPrefix ==
  [][(LineRead /\ HasStamp(line') /\ Len(messages') = Len(messages) + 1) =>
       /\ messages'[Len(messages')].sender = NameAfterPrefix(line')
       /\ messages'[Len(messages')].text = BodyAfterPrefix(line')]_vars

(***************************************************************************)
(* C18: in every state reached by parsing without a cache, every Sender of *)
(* the mapping is stored under its own name and is the sender of at least  *)
(* one Message, and once parse_file has returned every Sender's message    *)
(* count is at least 1.                                                    *)
(***************************************************************************)
C18_EverySenderHasAMessage ==
  /\ \A name \in DOMAIN senders :
       senders[name].name = name /\ MessagesFrom(name) # {}
  /\ (AfterParseFile => \A name \in DOMAIN senders : senders[name].messages >= 1)

\* parse_file has returned with two Senders and their messages counted
C18_Witness ==
  /\ AfterParseFile
  /\ Cardinality(DOMAIN senders) = 2
  /\ Len(messages) >= 2
  /\ \A name \in DOMAIN senders : senders[name].messages >= 1

====
